---- MODULE Spec2Model ----
(***************************************************************************)
(* Model of the VCIDE code editor (IDE/page.py, IDE/app.py, IDE/speech.py). *)
(*                                                                         *)
(* The Tk text widget of a Page is a record:                               *)
(*   chars   the buffer, text.get("1.0", "end-1c"), one character per      *)
(*           element; position i (1-based) is the Tk index of chars[i],    *)
(*           Len(chars)+1 is the final newline Tk always keeps ("end-1c")  *)
(*           and Len(chars)+2 is "end";                                    *)
(*   insert  the insertion cursor (mark "insert");                         *)
(*   tags    for each of "kw", "bi", "str", "comment" the set of positions *)
(*           carrying the tag;                                             *)
(*   a, b    the marks "a" and "b" used by syntaxHighlight;                *)
(*   lookups the neighbour-character subscripts line[i] evaluated by the   *)
(*           boundary conditions of the last pass, as <<i, len(line)>>;    *)
(*   undo, redo, mode   the undo and redo stacks of the widget (undo=1)    *)
(*           and the kind of the last recorded edit.                       *)
(* pc is the position of the code that runs step by step: the voice        *)
(* thread in Speech.recognize and in the pass it calls, or the pass of     *)
(* Page.__init__ taken scan by scan. held is the key that is down. todo    *)
(* holds the tokens that the for loop of a scan has still to go through,   *)
(* where the pass is taken iteration by iteration.                         *)
(* alive counts the threads running Speech.recognize; micButton and        *)
(* statusbar are the texts of the microphone button and of the status bar. *)
(* notebook is the ttk Notebook: tabs, the Pages in tab order, each with   *)
(* its path, its last saved contents and its buffer, and select, the index *)
(* of the selected tab. files maps the paths that exist to their contents, *)
(* destroyed tells that the main window is gone, and outcome records the   *)
(* last operation on a tab: what it returned, the answer to the question   *)
(* it asked, whether it wrote the buffer to a file, and the path it handed *)
(* to the interpreter.                                                     *)
(***************************************************************************)
EXTENDS Integers, Sequences, FiniteSets, TLC

VARIABLES syntax, text, pc, held, micKilled, said, todo,
          alive, micButton, statusbar,
          notebook, files, destroyed, outcome

\* The voice threads alive and the two widgets that show the microphone.
mic == <<alive, micButton, statusbar>>

\* The tabs, the files they are read from and written to, the main window
\* and what the last operation on a tab has returned.
desk == <<notebook, files, destroyed, outcome>>

vars == <<syntax, text, pc, held, micKilled, said, todo, mic, desk>>

\* ------------------------------------------------------------------ bounds
MaxLen == 5

\* The longest buffer the user types or dictates, and the deepest undo stack.
EditLen == 3

MaxUndo == 3

\* -------------------------------------------------------------- characters
NL == "\n"
DQ == "\""
SQ == "'"
HASH == "#"
SP == " "
COLON == ":"

\* Page.illegals: characters that cannot be used in identifiers (the grave
\* accent and the two non-ASCII signs of the list, which no buffer explored
\* here contains, have no spelling in a TLA+ string and are left out).
illegals ==
    {"!", DQ, "%", "^", "&", "*", "(", ")", "-", SP, "+", "=", "[", "]",
     "{", "}", SQ, "@", COLON, ";", HASH, "~", "/", "?", ",", "<", ".", ">",
     "\\", "|"}

\* Characters of the buffers explored: two identifier letters, a blank, both
\* quote characters, the comment introducer and the line separator.
Alphabet == {"a", "b", SP, DQ, SQ, HASH, NL}

\* resources/syntax.json as read into Page.syntax: identifiers only.
Catalog == [keywords |-> << <<"a", "b">>, <<"a">> >>, builtins |-> << <<"b">> >>]

TagNames == {"kw", "bi", "str", "comment"}

NoTags == [g \in TagNames |-> {}]

\* The priority order of the tags with the comment tag lowest.
Priority_Reversed == <<"comment", "str", "bi", "kw">>

\* The tags in the order of their tag_configure calls, which is their
\* priority order in Tk, lowest first.
Priority == <<"kw", "bi", "str", "comment">>

\* The foreground in which the character at p is displayed: that of the tag
\* of highest priority on it, "none" for a character without tag.
Visible(W, p) ==
    LET on == {k \in 1..Len(Priority) : p \in W.tags[Priority[k]]}
    IN  IF on = {} THEN "none"
        ELSE Priority[CHOOSE k \in on : \A j \in on : j <= k]

\* ------------------------------------------------------------ Tk indices
\* "end": the position after the final newline.
End(c) == Len(c) + 2

\* "<i> linestart"
LineStart(c, i) ==
    LET starts == {j \in 1..i : j = 1 \/ (j - 1 <= Len(c) /\ c[j - 1] = NL)}
    IN  CHOOSE j \in starts : \A k \in starts : k <= j

\* "<i> lineend": the position of the newline that ends the line of i.
LineEnd(c, i) ==
    LET ends == {j \in i..(Len(c) + 1) : j = Len(c) + 1 \/ c[j] = NL}
    IN  CHOOSE j \in ends : \A k \in ends : j <= k

\* index.split(".")[1]: the 0-based column of position i.
Col(c, i) == i - LineStart(c, i)

\* t.get(index + " linestart", index + "lineend")
Line(c, i) == SubSeq(c, LineStart(c, i), LineEnd(c, i) - 1)

\* "<i>+<n>c" and "<i>-<n>c": clamped to the text.
Clamp(c, i) == IF i < 1 THEN 1 ELSE IF i > Len(c) + 1 THEN Len(c) + 1 ELSE i

\* t.search(pat, from, stop): the first exact match starting at or after
\* from and before stop; 0 stands for the empty string (no match).
Search(c, pat, from, stop) ==
    LET hits == {i \in from..(stop - 1) :
                    /\ i >= 1
                    /\ i + Len(pat) - 1 <= Len(c)
                    /\ SubSeq(c, i, i + Len(pat) - 1) = pat}
    IN  IF hits = {} THEN 0 ELSE CHOOSE i \in hits : \A k \in hits : i <= k

\* t.tag_add(tag, from, to) and t.tag_remove(tag, from, to) on [from, to).
TagAdd(W, tag, from, to) ==
    [W EXCEPT !.tags[tag] = @ \cup {i \in from..(to - 1) : i <= Len(W.chars)}]

TagRemove(W, tag, from, to) ==
    [W EXCEPT !.tags[tag] = @ \ (from..(to - 1))]

\* str.count(ch)
Count(s, ch) == Cardinality({i \in 1..Len(s) : s[i] = ch})

\* ------------------------------------------------------ edits and undo
\* The text, tags and marks after s is inserted at i: the new characters get
\* the tags carried by both neighbours, and marks at or after i move right.
InsertChars(W, i, s) ==
    LET n == Len(s)
        move(m) == IF m >= i THEN m + n ELSE m
    IN  [W EXCEPT !.chars = SubSeq(@, 1, i - 1) \o s \o SubSeq(@, i, Len(@)),
                  !.tags = [g \in TagNames |->
                              {move(p) : p \in W.tags[g]} \cup
                              (IF i - 1 \in W.tags[g] /\ i \in W.tags[g]
                               THEN i..(i + n - 1) ELSE {})],
                  !.insert = move(@), !.a = move(@), !.b = move(@)]

\* The text, tags and marks after the characters of [i, j) are deleted.
DeleteChars(W, i, j) ==
    LET move(m) == IF m >= j THEN m - (j - i) ELSE IF m > i THEN i ELSE m
    IN  [W EXCEPT !.chars = SubSeq(@, 1, i - 1) \o SubSeq(@, j, Len(@)),
                  !.tags = [g \in TagNames |->
                              {move(p) : p \in W.tags[g] \ (i..(j - 1))}],
                  !.insert = move(@), !.a = move(@), !.b = move(@)]

Separator == [op |-> "sep", at |-> 0, s |-> << >>]

\* edit separator: a separator goes on a stack whose top is an edit.
InsertSeparator(st) ==
    IF st # << >> /\ st[Len(st)].op # "sep" THEN Append(st, Separator) ELSE st

\* An edit is recorded: autoseparators put a separator first when the kind
\* of edit changes, and the redo stack is emptied.
PushUndo(W, mode, atom) ==
    [W EXCEPT !.undo = Append(IF W.mode # mode THEN InsertSeparator(@) ELSE @, atom),
              !.redo = << >>,
              !.mode = mode]

\* t.insert(i, s) and t.delete(i, j) with undo recording.
TextInsert(W, i, s) ==
    IF s = << >> THEN W
    ELSE PushUndo(InsertChars(W, i, s), "ins", [op |-> "ins", at |-> i, s |-> s])

TextDelete(W, i, j) ==
    IF j <= i THEN W
    ELSE PushUndo(DeleteChars(W, i, j), "del",
                  [op |-> "del", at |-> i, s |-> SubSeq(W.chars, i, j - 1)])

\* An edit taken back (the cursor goes where the edit began or ended).
RevertAtom(W, atom) ==
    IF atom.op = "ins"
    THEN [DeleteChars(W, atom.at, atom.at + Len(atom.s)) EXCEPT !.insert = atom.at]
    ELSE [InsertChars(W, atom.at, atom.s) EXCEPT !.insert = atom.at + Len(atom.s)]

\* An edit made again.
ApplyAtom(W, atom) ==
    IF atom.op = "ins"
    THEN [InsertChars(W, atom.at, atom.s) EXCEPT !.insert = atom.at + Len(atom.s)]
    ELSE [DeleteChars(W, atom.at, atom.at + Len(atom.s)) EXCEPT !.insert = atom.at]

\* The edits down to the next separator are taken off the undo stack, taken
\* back and put on the redo stack.
RECURSIVE RevertGroup(_)
RevertGroup(W) ==
    IF W.undo = << >> THEN W
    ELSE LET top == W.undo[Len(W.undo)]
             W1 == [W EXCEPT !.undo = SubSeq(@, 1, Len(@) - 1)]
         IN  IF top.op = "sep" THEN W1
             ELSE RevertGroup([RevertAtom(W1, top) EXCEPT !.redo = Append(@, top)])

RECURSIVE ApplyGroup(_)
ApplyGroup(W) ==
    IF W.redo = << >> THEN W
    ELSE LET top == W.redo[Len(W.redo)]
             W1 == [W EXCEPT !.redo = SubSeq(@, 1, Len(@) - 1)]
         IN  IF top.op = "sep" THEN W1
             ELSE ApplyGroup([ApplyAtom(W1, top) EXCEPT !.undo = Append(@, top)])

\* A separator on top of a stack is taken off.
SkipSeparator(st) ==
    IF st # << >> /\ st[Len(st)].op = "sep" THEN SubSeq(st, 1, Len(st) - 1) ELSE st

\* Page.undoRedo: edit_undo or edit_redo; the TclError raised when there is
\* nothing to undo or redo is ignored.
undoRedo(W, undo) ==
    IF undo
    THEN IF SkipSeparator(W.undo) = << >> THEN W
         ELSE LET W1 == RevertGroup([W EXCEPT !.undo = SkipSeparator(@),
                                              !.redo = InsertSeparator(@)])
              IN  [W1 EXCEPT !.redo = InsertSeparator(@)]
    ELSE IF SkipSeparator(W.redo) = << >> THEN W
         ELSE LET W1 == ApplyGroup([W EXCEPT !.redo = SkipSeparator(@),
                                             !.undo = InsertSeparator(@)])
              IN  [W1 EXCEPT !.undo = InsertSeparator(@)]

\* ------------------------------------------------------- syntaxHighlight
\* Python subscript line[i] on a line of the buffer (negative i counts from
\* the end); "IndexError" when i is out of range.
Subscript(line, i) ==
    IF i >= 0 /\ i < Len(line) THEN line[i + 1]
    ELSE IF i < 0 /\ -i <= Len(line) THEN line[Len(line) + i + 1]
    ELSE "IndexError"

\* Boundary with the end-of-line case accepting any preceding character.
Boundary_EndUnchecked(line, col, length) ==
    LET d1 == col = 0 /\ Len(line) = col + length
        d2 == col = 0 /\ Subscript(line, col + length) \in illegals
        l2 == IF col = 0 THEN {col + length} ELSE {}
        d3 == Len(line) = col + length
        g4 == col # 0 /\ Len(line) > col + length
        d4 == g4 /\ Subscript(line, col - 1) \in illegals
                 /\ Subscript(line, col + length) \in illegals
        l4 == IF ~g4 THEN {}
              ELSE IF Subscript(line, col - 1) \in illegals
                   THEN {col - 1, col + length} ELSE {col - 1}
    IN  IF d1 THEN [ok |-> TRUE, lookups |-> {}]
        ELSE IF d2 THEN [ok |-> TRUE, lookups |-> l2]
        ELSE IF d3 THEN [ok |-> TRUE, lookups |-> l2]
        ELSE [ok |-> d4, lookups |-> l2 \cup l4]

\* Boundary with the end-of-line case evaluated before the whole-line case.
Boundary_EndFirst(line, col, length) ==
    LET d3 == Len(line) = col + length /\ Subscript(line, col - 1) \in illegals
        l3 == IF Len(line) = col + length THEN {col - 1} ELSE {}
        d1 == col = 0 /\ Len(line) = col + length
        d2 == col = 0 /\ Subscript(line, col + length) \in illegals
        l2 == IF col = 0 THEN {col + length} ELSE {}
        g4 == col # 0 /\ Len(line) > col + length
        d4 == g4 /\ Subscript(line, col - 1) \in illegals
                 /\ Subscript(line, col + length) \in illegals
        l4 == IF ~g4 THEN {}
              ELSE IF Subscript(line, col - 1) \in illegals
                   THEN {col - 1, col + length} ELSE {col - 1}
    IN  IF d3 THEN [ok |-> TRUE, lookups |-> l3]
        ELSE IF d1 THEN [ok |-> TRUE, lookups |-> l3]
        ELSE IF d2 THEN [ok |-> TRUE, lookups |-> l3 \cup l2]
        ELSE [ok |-> d4, lookups |-> l3 \cup l2 \cup l4]

\* The condition under which a match at column col of line, length
\* characters long, is tagged; or/and short-circuit, so the
\* subscripts evaluated depend on the disjuncts reached.
Boundary(line, col, length) ==
    LET d1 == col = 0 /\ Len(line) = col + length
        d2 == col = 0 /\ Subscript(line, col + length) \in illegals
        l2 == IF col = 0 THEN {col + length} ELSE {}
        d3 == Len(line) = col + length /\ Subscript(line, col - 1) \in illegals
        l3 == IF Len(line) = col + length THEN {col - 1} ELSE {}
        g4 == col # 0 /\ Len(line) > col + length
        d4 == g4 /\ Subscript(line, col - 1) \in illegals
                 /\ Subscript(line, col + length) \in illegals
        l4 == IF ~g4 THEN {}
              ELSE IF Subscript(line, col - 1) \in illegals
                   THEN {col - 1, col + length} ELSE {col - 1}
    IN  IF d1 THEN [ok |-> TRUE, lookups |-> {}]
        ELSE IF d2 THEN [ok |-> TRUE, lookups |-> l2]
        ELSE IF d3 THEN [ok |-> TRUE, lookups |-> l2 \cup l3]
        ELSE [ok |-> d4, lookups |-> l2 \cup l3 \cup l4]

\* TokenLoop leaving its loop at the first match that fails the condition.
RECURSIVE TokenLoop_StopAtMiss(_, _, _)
TokenLoop_StopAtMiss(W, tok, tag) ==
    LET index == Search(W.chars, tok, W.b, End(W.chars))
    IN  IF index = 0 THEN W
        ELSE LET line == Line(W.chars, index)
                 bc == Boundary(line, Col(W.chars, index), Len(tok))
                 W1 == [W EXCEPT !.a = index, !.b = index + Len(tok),
                                 !.lookups = @ \cup {<<i, Len(line)>> : i \in bc.lookups}]
             IN  IF bc.ok
                 THEN TokenLoop_StopAtMiss(TagAdd(W1, tag, W1.a, W1.b), tok, tag)
                 ELSE W1

\* The while-True loop for one catalog token: search from mark b, move the
\* marks around the match, tag it when the boundary condition holds.
RECURSIVE TokenLoop(_, _, _)
TokenLoop(W, tok, tag) ==
    LET index == Search(W.chars, tok, W.b, End(W.chars))
    IN  IF index = 0 THEN W
        ELSE LET line == Line(W.chars, index)
                 bc == Boundary(line, Col(W.chars, index), Len(tok))
                 W1 == [W EXCEPT !.a = index, !.b = index + Len(tok),
                                 !.lookups = @ \cup {<<i, Len(line)>> : i \in bc.lookups}]
             IN  TokenLoop(IF bc.ok THEN TagAdd(W1, tag, W1.a, W1.b) ELSE W1,
                           tok, tag)

\* TokenScan searching on from where the marks stand.
RECURSIVE TokenScan_KeepMarks(_, _, _)
TokenScan_KeepMarks(W, toks, tag) ==
    IF toks = << >> THEN W
    ELSE TokenScan_KeepMarks(TokenLoop(W, Head(toks), tag), Tail(toks), tag)

\* for kw in Page.syntax[...]: both marks go back to "1.0" for each token.
RECURSIVE TokenScan(_, _, _)
TokenScan(W, toks, tag) ==
    IF toks = << >> THEN W
    ELSE TokenScan(TokenLoop([W EXCEPT !.a = 1, !.b = 1], Head(toks), tag),
                   Tail(toks), tag)

\* ClearTags leaving the keyword tag in place.
ClearTags_KeepKeyword(W) ==
    [W EXCEPT !.tags = [g \in TagNames |-> IF g = "kw" THEN @[g] ELSE {}],
              !.lookups = {}]

\* Remove all color tags from the text field.
ClearTags(W) == [W EXCEPT !.tags = NoTags, !.lookups = {}]

\* KEYWORD HIGHLIGHTING and BUILT IN FUNCTION HIGHLIGHTING
KeywordScan(W, cat) == TokenScan(W, cat.keywords, "kw")

BuiltinScan(W, cat) == TokenScan(W, cat.builtins, "bi")

\* QuoteLoop resuming its search at the closing quote instead of after it.
RECURSIVE QuoteLoop_ResumeAtClose(_, _)
QuoteLoop_ResumeAtClose(W, q) ==
    LET index == Search(W.chars, <<q>>, W.b, End(W.chars))
    IN  IF index = 0 THEN W
        ELSE LET W1 == [W EXCEPT !.a = index, !.b = LineEnd(W.chars, index)]
                 close == Search(W1.chars, <<q>>, W1.a + 1, W1.b)
             IN  IF close = 0
                 THEN QuoteLoop_ResumeAtClose(
                          TagAdd(W1, "str", W1.a, LineEnd(W1.chars, W1.a)), q)
                 ELSE QuoteLoop_ResumeAtClose(
                          [TagAdd(W1, "str", W1.a, close + 1) EXCEPT !.b = close], q)

\* QuoteLoop looking for the closing quote up to the end of the buffer.
RECURSIVE QuoteLoop_CloseAnywhere(_, _)
QuoteLoop_CloseAnywhere(W, q) ==
    LET index == Search(W.chars, <<q>>, W.b, End(W.chars))
    IN  IF index = 0 THEN W
        ELSE LET W1 == [W EXCEPT !.a = index, !.b = LineEnd(W.chars, index)]
                 close == Search(W1.chars, <<q>>, W1.a + 1, End(W1.chars))
             IN  IF close = 0
                 THEN QuoteLoop_CloseAnywhere(
                          TagAdd(W1, "str", W1.a, LineEnd(W1.chars, W1.a)), q)
                 ELSE QuoteLoop_CloseAnywhere(
                          [TagAdd(W1, "str", W1.a, close + 1) EXCEPT !.b = close + 1], q)

\* QuoteLoop passing over a quote that already carries the String tag.
RECURSIVE QuoteLoop_SkipTagged(_, _)
QuoteLoop_SkipTagged(W, q) ==
    LET index == Search(W.chars, <<q>>, W.b, End(W.chars))
    IN  IF index = 0 THEN W
        ELSE IF index \in W.tags["str"]
        THEN QuoteLoop_SkipTagged([W EXCEPT !.b = index + 1], q)
        ELSE LET W1 == [W EXCEPT !.a = index, !.b = LineEnd(W.chars, index)]
                 close == Search(W1.chars, <<q>>, W1.a + 1, W1.b)
             IN  IF close = 0
                 THEN QuoteLoop_SkipTagged(
                          TagAdd(W1, "str", W1.a, LineEnd(W1.chars, W1.a)), q)
                 ELSE QuoteLoop_SkipTagged(
                          [TagAdd(W1, "str", W1.a, close + 1) EXCEPT !.b = close + 1], q)

\* STRING HIGHLIGHTING: the loop for one quote character q.
RECURSIVE QuoteLoop(_, _)
QuoteLoop(W, q) ==
    LET index == Search(W.chars, <<q>>, W.b, End(W.chars))
    IN  IF index = 0 THEN W
        ELSE LET W1 == [W EXCEPT !.a = index, !.b = LineEnd(W.chars, index)]
                 close == Search(W1.chars, <<q>>, W1.a + 1, W1.b)
             IN  IF close = 0
                 THEN QuoteLoop(TagAdd(W1, "str", W1.a, LineEnd(W1.chars, W1.a)), q)
                 ELSE QuoteLoop([TagAdd(W1, "str", W1.a, close + 1)
                                    EXCEPT !.b = close + 1], q)

QuoteScan(W, q) == QuoteLoop([W EXCEPT !.a = 1, !.b = 1], q)

\* CommentLoop counting only the double quotes before the hash sign.
RECURSIVE CommentLoop_DoubleOnly(_)
CommentLoop_DoubleOnly(W) ==
    LET index == Search(W.chars, <<HASH>>, W.b, End(W.chars))
    IN  IF index = 0 THEN W
        ELSE LET before == SubSeq(W.chars, LineStart(W.chars, index), index - 1)
             IN  IF Count(before, DQ) % 2 = 0
                 THEN LET W1 == [W EXCEPT !.a = index,
                                          !.b = LineEnd(W.chars, index)]
                      IN  CommentLoop_DoubleOnly(
                              TagAdd(TagRemove(W1, "str", W1.a, W1.b),
                                     "comment", W1.a, W1.b))
                 ELSE CommentLoop_DoubleOnly([W EXCEPT !.b = index + 1])

\* CommentLoop adding the comment tag without removing the string tag.
RECURSIVE CommentLoop_KeepStr(_)
CommentLoop_KeepStr(W) ==
    LET index == Search(W.chars, <<HASH>>, W.b, End(W.chars))
    IN  IF index = 0 THEN W
        ELSE LET before == SubSeq(W.chars, LineStart(W.chars, index), index - 1)
             IN  IF Count(before, DQ) % 2 = 0 /\ Count(before, SQ) % 2 = 0
                 THEN LET W1 == [W EXCEPT !.a = index,
                                          !.b = LineEnd(W.chars, index)]
                      IN  CommentLoop_KeepStr(TagAdd(W1, "comment", W1.a, W1.b))
                 ELSE CommentLoop_KeepStr([W EXCEPT !.b = index + 1])

\* CommentLoop tagging from every hash sign, whatever the quotes before it.
RECURSIVE CommentLoop_AnyHash(_)
CommentLoop_AnyHash(W) ==
    LET index == Search(W.chars, <<HASH>>, W.b, End(W.chars))
    IN  IF index = 0 THEN W
        ELSE LET W1 == [W EXCEPT !.a = index, !.b = LineEnd(W.chars, index)]
             IN  CommentLoop_AnyHash(TagAdd(TagRemove(W1, "str", W1.a, W1.b),
                                            "comment", W1.a, W1.b))

\* COMMENT HIGHLIGHTING
RECURSIVE CommentLoop(_)
CommentLoop(W) ==
    LET index == Search(W.chars, <<HASH>>, W.b, End(W.chars))
    IN  IF index = 0 THEN W
        ELSE LET before == SubSeq(W.chars, LineStart(W.chars, index), index - 1)
             IN  IF Count(before, DQ) % 2 = 0 /\ Count(before, SQ) % 2 = 0
                 THEN LET W1 == [W EXCEPT !.a = index,
                                          !.b = LineEnd(W.chars, index)]
                      IN  CommentLoop(TagAdd(TagRemove(W1, "str", W1.a, W1.b),
                                             "comment", W1.a, W1.b))
                 ELSE CommentLoop([W EXCEPT !.b = index + 1])

CommentScan(W) == CommentLoop([W EXCEPT !.a = 1, !.b = 1])

\* "insert -1l": one line up at the same column, or at the end of that line
\* when it is shorter; on the first line the position stays.
LineUp(c, i) ==
    LET ls == LineStart(c, i)
    IN  IF ls = 1 THEN i
        ELSE LET pls == LineStart(c, ls - 1)
             IN  IF pls + (i - ls) < ls - 1 THEN pls + (i - ls) ELSE ls - 1

\* t.get(i): the character at i, the final newline included.
Get(c, i) == IF i <= Len(c) THEN c[i] ELSE NL

\* len(prevln) - len(prevln.lstrip())
RECURSIVE LeadingBlanks(_)
LeadingBlanks(line) ==
    IF line # << >> /\ Head(line) \in {SP, NL, "\t", "\r", "\f"}
    THEN 1 + LeadingBlanks(Tail(line)) ELSE 0

Spaces(n) == [k \in 1..n |-> SP]

\* AutoIndent inserting as many blanks as the previous line begins with.
AutoIndent_NoFloor(W) ==
    LET prevln == Line(W.chars, Clamp(W.chars, W.insert - 1))
        W1 == TextInsert(W, W.insert, Spaces(LeadingBlanks(prevln)))
        last == Clamp(W1.chars, LineEnd(W1.chars, LineUp(W1.chars, W1.insert)) - 1)
    IN  IF Get(W1.chars, last) = COLON
        THEN TextInsert(W1, W1.insert, Spaces(4)) ELSE W1

\* The automatic indent made when the event's key is Return.
AutoIndent(W) ==
    LET prevln == Line(W.chars, Clamp(W.chars, W.insert - 1))
        W1 == TextInsert(W, W.insert, Spaces(4 * (LeadingBlanks(prevln) \div 4)))
        last == Clamp(W1.chars, LineEnd(W1.chars, LineUp(W1.chars, W1.insert)) - 1)
    IN  IF Get(W1.chars, last) = COLON
        THEN TextInsert(W1, W1.insert, Spaces(4)) ELSE W1

\* syntaxHighlight indenting on the event of any key.
syntaxHighlight_AnyKey(W, cat, keysym) ==
    CommentScan(QuoteScan(QuoteScan(BuiltinScan(KeywordScan(ClearTags(
        IF keysym # "None" THEN AutoIndent(W) ELSE W), cat), cat), DQ), SQ))

\* syntaxHighlight indenting after the scans instead of before the clearing.
syntaxHighlight_IndentLast(W, cat, keysym) ==
    LET W1 == CommentScan(QuoteScan(QuoteScan(BuiltinScan(KeywordScan(
                  ClearTags(W), cat), cat), DQ), SQ))
    IN  IF keysym = "Return" THEN AutoIndent(W1) ELSE W1

\* Page.syntaxHighlight(event): keysym is the event's key, "None" without
\* an event.
syntaxHighlight(W, cat, keysym) ==
    CommentScan(QuoteScan(QuoteScan(BuiltinScan(KeywordScan(ClearTags(
        IF keysym = "Return" THEN AutoIndent(W) ELSE W), cat), cat), DQ), SQ))

\* The text widget Page.__init__ creates (the marks a and b stand at "1.0"
\* until the first pass sets them).
EmptyText ==
    [chars |-> << >>, insert |-> 1, tags |-> NoTags, a |-> 1, b |-> 1,
     lookups |-> {}, undo |-> << >>, redo |-> << >>, mode |-> "other"]

\* Page.__init__: the widget after cont has been inserted at "end".
NewText(cont) == TextInsert(EmptyText, 1, cont)

\* ------------------------------------------------ the notebook of Pages
\* The most tabs open at once.
MaxTabs == 2

\* The most write failures followed through within one call of Page.save.
MaxRetry == 1

\* The file paths the dialogues and the directory tree can hand over.
Paths == {"p", "q"}

\* Page.path of a tab that has no file.
None == "None"

\* The contents a buffer or a file can have.
Contents == {<< >>, <<"a">>}

\* Page.__init__, the attributes: path, the last saved contents and the
\* buffer, both cont.
NewPage(cont, path) == [path |-> path, saved |-> cont, cont |-> cont]

\* Page.__init__, the end: notebook.add(self) and notebook.select(self).
Add(nb, tab) == [tabs |-> Append(nb.tabs, tab), select |-> Len(nb.tabs) + 1]

\* notebook.forget of tab i: the tabs behind it move up; when it was the
\* selected one the tab that takes its place is selected, or the one before
\* it when it was the last.
Forget(nb, i) ==
    LET rest == SubSeq(nb.tabs, 1, i - 1) \o SubSeq(nb.tabs, i + 1, Len(nb.tabs))
    IN  [tabs |-> rest,
         select |-> IF nb.select > i THEN nb.select - 1
                    ELSE IF nb.select = i /\ i > Len(rest) THEN Len(rest)
                    ELSE nb.select]

\* No file exists.
NoFiles == [p \in {} |-> << >>]

\* open(path, "w") and file.write(cont), both succeeding.
Write(fs, path, cont) ==
    [p \in DOMAIN fs \cup {path} |-> IF p = path THEN cont ELSE fs[p]]

\* No operation on a tab has been made yet, or the last operation was none
\* of save, close, run, exit and openFile.
NoOutcome ==
    [op |-> "none", ret |-> "None", answer |-> "none", wrote |-> FALSE,
     ran |-> None]

\* App.__init__, the microphone enabled and working: the button and the
\* status bar as they are created; no voice thread is alive.
MicReady ==
    /\ alive = 0
    /\ micButton = "Microphone Ready"
    /\ statusbar = "Waiting Command..."

\* App.__init__, the notebook: one empty untitled Page.
OneTab ==
    /\ notebook = Add([tabs |-> << >>, select |-> 0], NewPage(<< >>, None))
    /\ files = NoFiles
    /\ destroyed = FALSE
    /\ outcome = NoOutcome

\* ------------------------------------------------- the pass, scan by scan
Buffers == UNION {[1..n -> Alphabet] : n \in 0..MaxLen}

InitPass ==
    /\ syntax = Catalog
    /\ \E cont \in Buffers : text = NewText(cont)
    /\ pc = "clear"
    /\ held = "none"
    /\ micKilled = FALSE
    /\ said = << >>
    /\ todo = << >>
    /\ MicReady
    /\ OneTab

Clear ==
    /\ pc = "clear"
    /\ text' = ClearTags(text)
    /\ pc' = "kw"
    /\ UNCHANGED <<syntax, held, micKilled, said, todo, mic, desk>>

Keywords ==
    /\ pc = "kw"
    /\ text' = KeywordScan(text, syntax)
    /\ pc' = "bi"
    /\ UNCHANGED <<syntax, held, micKilled, said, todo, mic, desk>>

Builtins ==
    /\ pc = "bi"
    /\ text' = BuiltinScan(text, syntax)
    /\ pc' = "dq"
    /\ UNCHANGED <<syntax, held, micKilled, said, todo, mic, desk>>

DoubleQuotes ==
    /\ pc = "dq"
    /\ text' = QuoteScan(text, DQ)
    /\ pc' = "sq"
    /\ UNCHANGED <<syntax, held, micKilled, said, todo, mic, desk>>

SingleQuotes ==
    /\ pc = "sq"
    /\ text' = QuoteScan(text, SQ)
    /\ pc' = "comment"
    /\ UNCHANGED <<syntax, held, micKilled, said, todo, mic, desk>>

Comments ==
    /\ pc = "comment"
    /\ text' = CommentScan(text)
    /\ pc' = "done"
    /\ UNCHANGED <<syntax, held, micKilled, said, todo, mic, desk>>

NextPass ==
    \/ Clear
    \/ Keywords
    \/ Builtins
    \/ DoubleQuotes
    \/ SingleQuotes
    \/ Comments

SpecPass == InitPass /\ [][NextPass]_vars

\* ---------------------------------------------------------- the editor
\* The keys of the keyboard explored: a letter, Return, BackSpace, the left
\* arrow and the right Shift key.
Letters == {"a"}

\* What the clipboard holds when Paste is chosen.
Clipboard == <<"a">>

\* What recognize_google may return.
Utterances == {<<"t", "y", "p", "e", " ", "a">>, <<"h", "i">>}

\* said.find(pat): the 0-based index of the first occurrence, -1 if none.
Find(str, pat) ==
    LET at == Search(str, pat, 1, Len(str) + 1) IN IF at = 0 THEN -1 ELSE at - 1

\* sr.Microphone() as App.__init__, App.killMic and Speech.recognize call
\* it: TRUE when a working microphone is found, FALSE on OSError.
Microphone == BOOLEAN

\* App.__init__, the microphone button and the status bar: disabled, ready
\* or offline.
MicShown ==
    /\ alive = 0
    /\ IF micKilled
       THEN /\ micButton = "Microphone Disabled"
            /\ statusbar = "Microphone Disabled by User"
       ELSE \E found \in Microphone :
               IF found
               THEN /\ micButton = "Microphone Ready"
                    /\ statusbar = "Waiting Command..."
               ELSE /\ micButton = "Microphone Offline"
                    /\ statusbar = "Microphone Offline"

\* App.__init__: one empty untitled Page, highlighted once; no key is down
\* and no voice thread is alive; micKilled comes from prefs.json.
Init ==
    /\ syntax = Catalog
    /\ text = syntaxHighlight(NewText(<< >>), Catalog, "None")
    /\ pc = "idle"
    /\ held = "none"
    /\ micKilled \in BOOLEAN
    /\ said = << >>
    /\ todo = << >>
    /\ MicShown
    /\ OneTab

\* A letter key goes down: the Text class binding inserts it at the cursor.
KeyPress(k) ==
    /\ held = "none"
    /\ Len(text.chars) < EditLen
    /\ Len(text.undo) < MaxUndo
    /\ text' = TextInsert(text, text.insert, <<k>>)
    /\ held' = k
    /\ UNCHANGED <<syntax, pc, micKilled, said, todo, mic, desk>>

\* Return goes down: a newline is inserted, followed by an undo separator.
ReturnPress ==
    /\ held = "none"
    /\ Len(text.chars) < EditLen
    /\ Len(text.undo) < MaxUndo
    /\ text' = [TextInsert(text, text.insert, <<NL>>)
                   EXCEPT !.undo = InsertSeparator(@)]
    /\ held' = "Return"
    /\ UNCHANGED <<syntax, pc, micKilled, said, todo, mic, desk>>

\* BackSpace goes down: the character before the cursor is deleted.
BackSpacePress ==
    /\ held = "none"
    /\ Len(text.undo) < MaxUndo
    /\ text' = IF text.insert > 1
               THEN TextDelete(text, text.insert - 1, text.insert) ELSE text
    /\ held' = "BackSpace"
    /\ UNCHANGED <<syntax, pc, micKilled, said, todo, mic, desk>>

\* The left arrow goes down: the cursor moves one character back.
LeftPress ==
    /\ held = "none"
    /\ text' = [text EXCEPT !.insert = Clamp(text.chars, @ - 1)]
    /\ held' = "Left"
    /\ UNCHANGED <<syntax, pc, micKilled, said, todo, mic, desk>>

\* Speech.start without its test: a new thread whenever it is called.
start_Unguarded == "recognize"

\* Speech.start: a new thread runs recognize unless the last one is alive
\* or the microphone is disabled. The value is the position of self.thread
\* after the call; the thread is alive unless that position is "idle".
start == IF pc = "idle" /\ ~micKilled THEN "recognize" ELSE pc

\* Speech.start, the threads: one more is alive when a new one was started.
Started ==
    /\ pc' = start
    /\ alive' = IF pc' # pc THEN alive + 1 ELSE alive

\* Speech.recognize returns: its thread is no longer alive.
Returned == alive' = alive - 1

\* The right Shift key goes down: speechRec.start().
ShiftPress ==
    /\ held = "none"
    /\ Started
    /\ held' = "Shift_R"
    /\ UNCHANGED <<syntax, text, micKilled, said, todo, micButton, statusbar,
                   desk>>

\* The key that is down is released: the KeyRelease binding runs
\* syntaxHighlight(event) of the selected Page to its end.
KeyRelease ==
    /\ held # "none"
    /\ text' = syntaxHighlight(text, syntax, held)
    /\ held' = "none"
    /\ UNCHANGED <<syntax, pc, micKilled, said, todo, mic, desk>>

\* Edit menu, Undo and Redo: Page.undoRedo(True) and Page.undoRedo(False).
MenuUndo ==
    /\ text' = undoRedo(text, TRUE)
    /\ UNCHANGED <<syntax, pc, held, micKilled, said, todo, mic, desk>>

MenuRedo ==
    /\ text' = undoRedo(text, FALSE)
    /\ UNCHANGED <<syntax, pc, held, micKilled, said, todo, mic, desk>>

\* Edit menu, Paste: event_generate("<<Paste>>") inserts the clipboard at the
\* cursor between two undo separators, outside the automatic ones.
MenuPaste ==
    /\ Len(text.chars) + Len(Clipboard) <= EditLen
    /\ Len(text.undo) + 1 < MaxUndo
    /\ LET W == [text EXCEPT !.undo = InsertSeparator(@)]
           W1 == InsertChars(W, W.insert, Clipboard)
       IN  text' = [W1 EXCEPT
                      !.undo = InsertSeparator(Append(@,
                                 [op |-> "ins", at |-> W.insert, s |-> Clipboard])),
                      !.redo = << >>,
                      !.mode = "ins"]
    /\ UNCHANGED <<syntax, pc, held, micKilled, said, todo, mic, desk>>

\* Microphone menu, Start Listening: speechRec.start(). The entry is
\* disabled while the microphone is.
MenuStart ==
    /\ ~micKilled
    /\ Started
    /\ pc' # pc
    /\ UNCHANGED <<syntax, text, held, micKilled, said, todo, micButton,
                   statusbar, desk>>

\* App.killMic: the microphone is switched off or on, and the button and the
\* status bar are set to the new state.
killMic ==
    /\ micKilled' = ~micKilled
    /\ IF micKilled'
       THEN /\ micButton' = "Microphone Disabled"
            /\ statusbar' = "Microphone Disabled by User"
       ELSE \E found \in Microphone :
               IF found
               THEN /\ micButton' = "Microphone Ready"
                    /\ statusbar' = "Waiting Command..."
               ELSE /\ micButton' = "Microphone Offline"
                    /\ statusbar' = "Microphone Offline"
    /\ UNCHANGED <<syntax, text, pc, held, said, todo, alive, desk>>

\* Speech.recognize, the beginning: without a working microphone the thread
\* shows that and returns; otherwise it shows that it listens.
Begin ==
    /\ pc = "recognize"
    /\ \E found \in Microphone :
          IF found
          THEN /\ micButton' = "Listening..."
               /\ statusbar' = "Listening..."
               /\ pc' = "listen"
               /\ alive' = alive
          ELSE /\ micButton' = "Microphone Offline"
               /\ statusbar' = "Microphone Offline"
               /\ pc' = "idle"
               /\ Returned
    /\ UNCHANGED <<syntax, text, held, micKilled, said, todo, desk>>

\* Speech.recognize, the end of listening: the thread returns if the
\* microphone was disabled meanwhile, otherwise it shows that it processes.
Listen ==
    /\ pc = "listen"
    /\ IF micKilled
       THEN /\ pc' = "idle"
            /\ Returned
            /\ UNCHANGED <<micButton, statusbar>>
       ELSE /\ pc' = "process"
            /\ micButton' = "Processing..."
            /\ statusbar' = "Processing..."
            /\ alive' = alive
    /\ UNCHANGED <<syntax, text, held, micKilled, said, todo, desk>>

\* Speech.recognize, transcription: an UnknownValueError or RequestError ends
\* the thread, otherwise said holds what was heard and the status bar shows
\* it; the button is set in each case.
Transcribe ==
    /\ pc = "process"
    /\ \/ /\ pc' = "idle" /\ said' = << >>
          /\ micButton' = "Microphone Ready"
          /\ statusbar' = "Couldn't Understand"
          /\ Returned
       \/ /\ pc' = "idle" /\ said' = << >>
          /\ micButton' = "Internet Offline"
          /\ statusbar' = "Internet Offline"
          /\ Returned
       \/ \E u \in Utterances :
             /\ said' = u /\ pc' = "command"
             /\ micButton' = "Microphone Ready"
             /\ statusbar' = "Heard"
             /\ alive' = alive
    /\ UNCHANGED <<syntax, text, held, micKilled, todo, desk>>

\* Speech.recognize, the type command: the words after "type " are inserted
\* at the cursor of the selected Page and its syntaxHighlight() is called,
\* all from the voice thread. Other utterances end the thread here.
Command ==
    /\ pc = "command"
    /\ LET at == Find(said, <<"t", "y", "p", "e", " ">>)
           words == SubSeq(said, at + 6, Len(said))
       IN  IF at # -1
           THEN /\ Len(text.chars) + Len(words) <= EditLen
                /\ Len(text.undo) < MaxUndo
                /\ text' = TextInsert(text, text.insert, words)
                /\ pc' = "clear"
           ELSE /\ text' = text
                /\ pc' = "idle"
    /\ said' = IF pc' = "idle" THEN << >> ELSE said
    /\ alive' = IF pc' = "idle" THEN alive - 1 ELSE alive
    /\ UNCHANGED <<syntax, held, micKilled, todo, micButton, statusbar, desk>>

\* The pass called by the voice thread has returned: the thread ends.
ThreadExit ==
    /\ pc = "done"
    /\ pc' = "idle"
    /\ said' = << >>
    /\ Returned
    /\ UNCHANGED <<syntax, text, held, micKilled, todo, micButton, statusbar,
                   desk>>

Next ==
    \/ \E k \in Letters : KeyPress(k)
    \/ ReturnPress
    \/ BackSpacePress
    \/ LeftPress
    \/ ShiftPress
    \/ KeyRelease
    \/ MenuUndo
    \/ MenuRedo
    \/ MenuPaste
    \/ MenuStart
    \/ killMic
    \/ Begin
    \/ Listen
    \/ Transcribe
    \/ Command
    \/ Clear
    \/ Keywords
    \/ Builtins
    \/ DoubleQuotes
    \/ SingleQuotes
    \/ Comments
    \/ ThreadExit

Spec == Init /\ [][Next]_vars

TypeOK ==
    /\ pc \in {"idle", "recognize", "listen", "process", "command",
               "clear", "kw", "bi", "dq", "sq", "comment", "done"}
    /\ held \in {"none", "Return", "BackSpace", "Left", "Shift_R"} \cup Letters
    /\ micKilled \in BOOLEAN
    /\ text.insert \in 1..(Len(text.chars) + 1)
    /\ text.a \in 1..(Len(text.chars) + 1)
    /\ text.b \in 1..(Len(text.chars) + 1)
    /\ \A g \in TagNames : text.tags[g] \subseteq 1..Len(text.chars)

\* ------------------------------------------------------------ properties
Positions == 1..Len(text.chars)

AtLineStart(c, s) == s = 1 \/ c[s - 1] = NL

AtLineEnd(c, e) == e = Len(c) + 1 \/ c[e] = NL

\* p and r lie on the same line: no line separator from the first to the
\* character before the second.
SameLine(c, p, r) ==
    \A k \in (IF p < r THEN p ELSE r)..((IF p < r THEN r ELSE p) - 1) : c[k] # NL

Occurs(c, tok, s) ==
    /\ s >= 1
    /\ s + Len(tok) - 1 <= Len(c)
    /\ \A k \in 1..Len(tok) : c[s + k - 1] = tok[k]

\* The boundary rule (a)-(d) for the n characters starting at s.
Delimited(c, s, n) ==
    \/ AtLineStart(c, s) /\ AtLineEnd(c, s + n)
    \/ AtLineStart(c, s) /\ ~AtLineEnd(c, s + n) /\ c[s + n] \in illegals
    \/ AtLineEnd(c, s + n) /\ ~AtLineStart(c, s) /\ c[s - 1] \in illegals
    \/ /\ ~AtLineStart(c, s) /\ ~AtLineEnd(c, s + n)
       /\ c[s - 1] \in illegals /\ c[s + n] \in illegals

Range(seq) == {seq[k] : k \in 1..Len(seq)}

\* p lies in a delimited occurrence of one of the tokens.
Covered(c, toks, p) ==
    \E tok \in Range(toks) : \E s \in 1..p :
        Occurs(c, tok, s) /\ p < s + Len(tok) /\ Delimited(c, s, Len(tok))

AfterKeywords == pc \in {"bi", "dq", "sq", "comment", "done"}

AfterBuiltins == pc \in {"dq", "sq", "comment", "done"}

\* C1: a position carries the Keyword (Builtin) tag only if it lies in an
\* occurrence of a keyword (builtin) that is delimited by the boundary rule:
\* the whole line, or at column 0 followed by an IllegalSet character, or at
\* the line's end preceded by one, or interior with both neighbours in
\* IllegalSet. A match with a neighbour outside IllegalSet is never tagged.
C1_OnlyDelimitedTagged ==
    /\ \A p \in text.tags["kw"] : Covered(text.chars, syntax.keywords, p)
    /\ \A p \in text.tags["bi"] : Covered(text.chars, syntax.builtins, p)
    /\ (AfterKeywords /\ text.chars = <<"a", "b">>) => text.tags["kw"] = {1, 2}
    /\ (AfterKeywords /\ text.chars = <<"b", "a", "b">>) => text.tags["kw"] = {}
    /\ (AfterKeywords /\ text.chars = <<"b", SP, "a", "b", DQ>>)
          => text.tags["kw"] = {3, 4}

\* A pass has finished on a buffer where a keyword match inside a longer
\* identifier was left untagged while another match on it was tagged.
C1_Witness ==
    /\ pc = "done"
    /\ text.tags["kw"] # {}
    /\ \E tok \in Range(syntax.keywords) : \E s \in Positions :
          /\ Occurs(text.chars, tok, s)
          /\ ~Delimited(text.chars, s, Len(tok))
          /\ s \notin text.tags["kw"]

\* C2: once the keyword (builtin) scan has run, every delimited occurrence of
\* every keyword (builtin) carries the tag on all its characters, wherever it
\* lies in the buffer and whatever matches precede it.
C2_EveryDelimitedTagged ==
    /\ AfterKeywords =>
         \A tok \in Range(syntax.keywords) : \A s \in Positions :
            (Occurs(text.chars, tok, s) /\ Delimited(text.chars, s, Len(tok)))
               => \A p \in s..(s + Len(tok) - 1) : p \in text.tags["kw"]
    /\ AfterBuiltins =>
         \A tok \in Range(syntax.builtins) : \A s \in Positions :
            (Occurs(text.chars, tok, s) /\ Delimited(text.chars, s, Len(tok)))
               => \A p \in s..(s + Len(tok) - 1) : p \in text.tags["bi"]

\* A delimited occurrence was tagged after a match of the same token earlier
\* on the same line failed the boundary rule.
C2_Witness ==
    /\ pc = "done"
    /\ \E tok \in Range(syntax.keywords) : \E s1 \in Positions : \E s2 \in Positions :
          /\ s1 < s2
          /\ SameLine(text.chars, s1, s2)
          /\ Occurs(text.chars, tok, s1) /\ ~Delimited(text.chars, s1, Len(tok))
          /\ Occurs(text.chars, tok, s2) /\ Delimited(text.chars, s2, Len(tok))
          /\ s2 \in text.tags["kw"]

\* C3: every neighbour-character subscript line[i] evaluated by a boundary
\* condition has 0 <= i < len(line): none is out of range and none is -1.
C3_LookupsInRange ==
    \A l \in text.lookups : 0 <= l[1] /\ l[1] < l[2]

\* A pass has finished on a buffer with a line that equals a keyword, where
\* the character before a match and the character after a match were read.
C3_Witness ==
    /\ pc = "done"
    /\ \E tok \in Range(syntax.keywords) : \E s \in Positions :
          /\ Occurs(text.chars, tok, s)
          /\ AtLineStart(text.chars, s) /\ AtLineEnd(text.chars, s + Len(tok))
    /\ \E l \in text.lookups : l[1] = 0
    /\ \E l \in text.lookups : l[1] = l[2] - 1 /\ l[1] > 0

\* The number of characters ch on the line of p strictly before p.
CountBefore(c, ch, p) ==
    Cardinality({k \in 1..(p - 1) : c[k] = ch /\ SameLine(c, k, p)})

\* C4: after a pass a character of a line carries the Comment tag if and only
\* if a hash sign at or before it on its line has an even number of double
\* quotes and an even number of single quotes before it on that line; the
\* span runs to the end of the line and excludes the line separator, and a
\* hash sign after an odd number of either quote is passed over.
C4_CommentIffEvenQuotes ==
    pc = "done" =>
        \A p \in Positions :
            p \in text.tags["comment"] <=>
                /\ text.chars[p] # NL
                /\ \E h \in 1..p :
                      /\ text.chars[h] = HASH
                      /\ SameLine(text.chars, h, p)
                      /\ CountBefore(text.chars, DQ, h) % 2 = 0
                      /\ CountBefore(text.chars, SQ, h) % 2 = 0

\* A pass has finished on a line where a hash sign after an odd number of
\* quotes was passed over and a later hash sign of the line was tagged.
C4_Witness ==
    /\ pc = "done"
    /\ \E h1 \in Positions : \E h2 \in Positions :
          /\ h1 < h2
          /\ SameLine(text.chars, h1, h2)
          /\ text.chars[h1] = HASH /\ text.chars[h2] = HASH
          /\ CountBefore(text.chars, DQ, h1) % 2 = 1
          /\ h1 \notin text.tags["comment"]
          /\ h2 \in text.tags["comment"]

\* p lies in a closed pair of q: the pairs of a line are its 1st and 2nd
\* occurrence of q, its 3rd and 4th, and so on.
InPair(c, q, p) ==
    \E o \in 1..p : \E cl \in p..Len(c) :
        /\ o < cl
        /\ SameLine(c, o, cl)
        /\ c[o] = q /\ c[cl] = q
        /\ \A k \in (o + 1)..(cl - 1) : c[k] # q
        /\ CountBefore(c, q, o) % 2 = 0

\* p lies on a line at or after an opening q that has no partner on the line.
InTail(c, q, p) ==
    /\ c[p] # NL
    /\ \E o \in 1..p :
          /\ c[o] = q
          /\ SameLine(c, o, p)
          /\ CountBefore(c, q, o) % 2 = 0
          /\ \A k \in (o + 1)..Len(c) : SameLine(c, o, k) => c[k] # q

\* C5: each quote scan tags exactly the closed pairs of its quote character,
\* opening through closing quote: after the double-quote scan a character
\* that is not behind an unpaired quote carries String iff it lies in a pair
\* of double quotes; the single-quote scan then adds exactly the pairs of
\* single quotes. Characters between two pairs stay untagged.
C5_PairsTagged ==
    /\ pc = "sq" =>
         \A p \in Positions :
            ~InTail(text.chars, DQ, p) =>
               (p \in text.tags["str"] <=> InPair(text.chars, DQ, p))
    /\ pc = "comment" =>
         \A p \in Positions :
            ~InTail(text.chars, SQ, p) =>
               (p \in text.tags["str"] <=>
                   \/ InPair(text.chars, SQ, p)
                   \/ InPair(text.chars, DQ, p)
                   \/ InTail(text.chars, DQ, p))
    /\ (pc = "sq" /\ text.chars = <<"a", DQ, "b", DQ, "a">>)
          => text.tags["str"] = {2, 3, 4}

\* The double-quote scan has run on a line with two closed pairs and an
\* untagged character between them.
C5_Witness ==
    /\ pc = "sq"
    /\ \E p \in Positions :
          /\ p - 1 \in text.tags["str"]
          /\ p \notin text.tags["str"]
          /\ p + 1 \in text.tags["str"]
          /\ InPair(text.chars, DQ, p - 1)
          /\ InPair(text.chars, DQ, p + 1)

\* C6: no String tag reaches a line separator. An opening quote without a
\* partner on its line is tagged from the quote to the end of its line, and
\* nothing else is tagged on its account: a quote on a later line opens a
\* span of its own.
C6_StringWithinLine ==
    /\ \A p \in text.tags["str"] : text.chars[p] # NL
    /\ pc = "sq" =>
         \A p \in Positions :
            /\ InTail(text.chars, DQ, p) => p \in text.tags["str"]
            /\ p \in text.tags["str"] =>
                  InPair(text.chars, DQ, p) \/ InTail(text.chars, DQ, p)
    /\ pc = "comment" =>
         \A p \in Positions :
            /\ InTail(text.chars, SQ, p) => p \in text.tags["str"]
            /\ p \in text.tags["str"] =>
                  \/ InPair(text.chars, SQ, p) \/ InTail(text.chars, SQ, p)
                  \/ InPair(text.chars, DQ, p) \/ InTail(text.chars, DQ, p)

\* The double-quote scan has run on a buffer whose first quote has no partner
\* on its line while a later line holds another double quote.
C6_Witness ==
    /\ pc = "sq"
    /\ \E o \in Positions : \E n \in Positions : \E o2 \in Positions :
          /\ o < n /\ n < o2
          /\ text.chars[o] = DQ /\ text.chars[n] = NL /\ text.chars[o2] = DQ
          /\ InTail(text.chars, DQ, o)
          /\ o \in text.tags["str"]
          /\ n \notin text.tags["str"]

\* The kinds of tag carried by position p.
KindsAt(p) == {g \in TagNames : p \in text.tags[g]}

\* C7: after a pass no position carries tags of two different kinds.
C7_NoOverlap ==
    pc = "done" => \A p \in Positions : Cardinality(KindsAt(p)) <= 1

\* C8: after a pass no position carries both the Comment and the String tag.
C8_NoStringInComment ==
    pc = "done" => text.tags["comment"] \cap text.tags["str"] = {}

\* A pass has finished with a Comment span over characters that a quote scan
\* had tagged String.
C8_Witness ==
    /\ pc = "done"
    /\ \E p \in text.tags["comment"] :
          InPair(text.chars, DQ, p) \/ InTail(text.chars, SQ, p)

\* No key is down and no voice thread is alive.
AtRest == held = "none" /\ pc = "idle"

\* C9: every edit of the buffer is followed by a pass, so that whenever the
\* editor is at rest the tags are those a pass gives for the current buffer.
C9_TagsCurrentAtRest ==
    AtRest => text.tags = syntaxHighlight(text, syntax, "None").tags

\* The pass of the voice thread has cleared the tags and its comment scan
\* has not ended.
MidPass == pc \in {"kw", "bi", "dq", "sq", "comment"}

\* C10: from the clearing of the tags to the end of the comment scan of a
\* pass, the buffer text and the marks a and b are changed by the steps of
\* that pass only: no edit and no other pass takes place in between.
C10_Serialized ==
    [][(MidPass /\ pc' = pc) =>
          /\ text'.chars = text.chars
          /\ text'.a = text.a
          /\ text'.b = text.b]_vars

\* A step of the voice thread: pc leaves a position of Speech.recognize or
\* of the pass it calls (the UI thread moves pc only away from "idle").
WorkerStep == pc # "idle" /\ pc' # pc

\* C11: the voice thread never changes an editor buffer and runs no pass
\* itself: no step of the thread changes the text, the cursor or the tags of
\* the widget; it only hands edits over to the UI thread.
C11_WorkerLeavesText ==
    [][WorkerStep =>
          /\ text'.chars = text.chars
          /\ text'.insert = text.insert
          /\ text'.tags = text.tags]_vars

\* ------------------------------------------- a file opened and edited
\* The longest file opened in the editor.
IndentLen == 5

\* The deepest undo stack at which a key is still pressed in the file.
IndentUndo == 1

\* Characters of the files opened: a letter, a blank, a colon and the line
\* separator.
IndentAlphabet == {"a", SP, COLON, NL}

IndentBuffers == UNION {[1..n -> IndentAlphabet] : n \in 0..IndentLen}

\* App.openFile: the Page made for a file holds its contents, highlighted
\* once by Page.__init__; no key is down.
InitIndent ==
    /\ syntax = Catalog
    /\ \E cont \in IndentBuffers :
          text = syntaxHighlight(NewText(cont), Catalog, "None")
    /\ pc = "idle"
    /\ held = "none"
    /\ micKilled = FALSE
    /\ said = << >>
    /\ todo = << >>
    /\ MicReady
    /\ OneTab

\* The undo stack is that of a file just opened.
Unedited(W) == W.undo = NewText(W.chars).undo /\ W.redo = << >>

\* A click in the text of the file as opened puts the cursor at the
\* character clicked; the edits follow where the cursor then stands.
Click(i) ==
    /\ held = "none"
    /\ Unedited(text)
    /\ i \in 1..(Len(text.chars) + 1)
    /\ text' = [text EXCEPT !.insert = i]
    /\ UNCHANGED <<syntax, pc, held, micKilled, said, todo, mic, desk>>

\* The character keys typed into the file.
IndentKeys == {"a"}

\* A key of a character goes down in the text of the file.
FileKeyPress(k) ==
    /\ held = "none"
    /\ Len(text.undo) <= IndentUndo
    /\ text' = TextInsert(text, text.insert, <<k>>)
    /\ held' = k
    /\ UNCHANGED <<syntax, pc, micKilled, said, todo, mic, desk>>

\* Return goes down in the text of the file: a newline is inserted, followed
\* by an undo separator.
FileReturnPress ==
    /\ held = "none"
    /\ Len(text.undo) <= IndentUndo
    /\ text' = [TextInsert(text, text.insert, <<NL>>)
                   EXCEPT !.undo = InsertSeparator(@)]
    /\ held' = "Return"
    /\ UNCHANGED <<syntax, pc, micKilled, said, todo, mic, desk>>

\* Return goes down while the directory tree has the focus: a node of the
\* tree is opened or closed and the text is not edited. The release of the
\* key is bound for all widgets.
TreeReturnPress ==
    /\ held = "none"
    /\ Len(text.undo) <= IndentUndo
    /\ held' = "Return"
    /\ UNCHANGED <<syntax, text, pc, micKilled, said, todo, mic, desk>>

NextIndent ==
    \/ \E i \in 1..(Len(text.chars) + 1) : Click(i)
    \/ \E k \in IndentKeys : FileKeyPress(k)
    \/ FileReturnPress
    \/ TreeReturnPress
    \/ KeyRelease

SpecIndent == InitIndent /\ [][NextIndent]_vars

\* The handler of a key release has run: only KeyRelease lets the key go.
Released == held # "none" /\ held' = "none"

\* The character before the cursor is a line separator.
AfterNewline(W) == W.insert > 1 /\ W.chars[W.insert - 1] = NL

\* The line that ends at the line separator before position i.
PreviousLine(c, i) ==
    LET s == CHOOSE j \in 1..(i - 1) :
                 /\ \A k \in j..(i - 2) : c[k] # NL
                 /\ j = 1 \/ c[j - 1] = NL
    IN  SubSeq(c, s, i - 2)

\* The length of the run of blanks a line begins with.
LeadingRun(line) ==
    CHOOSE n \in 0..Len(line) :
        /\ \A k \in 1..n : line[k] = SP
        /\ n < Len(line) => line[n + 1] # SP

\* floor(L/4)*4, and 4 more after a line that ends in a colon.
Indentation(line) ==
    4 * (LeadingRun(line) \div 4) +
    (IF line # << >> /\ line[Len(line)] = COLON THEN 4 ELSE 0)

C13_IndentOnlyAfterNewline ==
    [][(Released /\ text'.chars # text.chars) => AfterNewline(text)]_vars

\* C14: a pass for a key other than Return, or without an event, changes
\* neither the text nor the cursor: the release of such a key leaves both as
\* they were, and so would a pass without event at the same moment.
C14_PassKeepsTextAndCursor ==
    [][(Released /\ held # "Return") =>
          /\ text'.chars = text.chars
          /\ text'.insert = text.insert
          /\ text'.undo = text.undo
          /\ syntaxHighlight(text, syntax, "None").chars = text.chars
          /\ syntaxHighlight(text, syntax, "None").insert = text.insert]_vars

\* A letter was typed behind four blanks and its key released: the last edit
\* on record is that letter, the cursor stands behind it, and the indent of a
\* Return event would have inserted blanks there.
C14_Witness ==
    /\ held = "none"
    /\ text.chars = <<SP, SP, SP, SP, "a">>
    /\ text.insert = 6
    /\ text.undo # << >>
    /\ text.undo[Len(text.undo)] = [op |-> "ins", at |-> 5, s |-> <<"a">>]
    /\ AutoIndent(text).chars # text.chars

\* The scans of a pass in their order, after the clearing of the tags.
ScansInOrder(W) ==
    CommentScan(QuoteScan(QuoteScan(BuiltinScan(KeywordScan(ClearTags(W),
        syntax), syntax), DQ), SQ))

PriorTags(W) == {NoTags, [g \in TagNames |-> 1..Len(W.chars)]}

\* C16: the tags after a pass depend on the text and the catalog only: the
\* pass of a key release leaves the tags it would have left had it found any
\* other tags on the same text, since it removes all four kinds first.
C16_TagsIndependentOfPrior ==
    [][Released =>
          \A T \in PriorTags(text) :
             text'.tags = syntaxHighlight([text EXCEPT !.tags = T], syntax, held).tags]_vars

\* A letter was typed right behind a tagged keyword at the start of the file
\* and its key released: the pass has taken the keyword tag off the longer
\* identifier.
C16_Witness ==
    /\ held = "none"
    /\ text.chars = <<"a", "a", SP, "a">>
    /\ text.undo = <<[op |-> "ins", at |-> 1, s |-> <<"a", SP, "a">>],
                     [op |-> "ins", at |-> 2, s |-> <<"a">>]>>
    /\ text.tags["kw"] = {4}

\* C17: a pass on a text that a pass has just highlighted leaves the same
\* tags: two passes in a row, without event or for a key other than Return,
\* give what one pass gives.
C17_Idempotent ==
    pc = "done" =>
        /\ syntaxHighlight(text, syntax, "None").tags = text.tags
        /\ syntaxHighlight(text, syntax, "a").tags = text.tags
        /\ syntaxHighlight(syntaxHighlight(text, syntax, "None"), syntax, "None").tags
              = text.tags

\* A pass has finished and left tags of all four kinds, with the marks at the
\* end of a comment.
C17_Witness ==
    /\ pc = "done"
    /\ \A g \in TagNames : text.tags[g] # {}
    /\ text.b > 1

\* ------------------------------------- the pass, iteration by iteration
\* The longest buffer on which the pass is followed through its loops.
LoopLen == 3

LoopBuffers == UNION {[1..n -> Alphabet] : n \in 0..LoopLen}

\* Catalogs that resources/syntax.json may hold: the one above, one with a
\* token in both lists, one with a token that overlaps itself.
Catalogs ==
    {Catalog,
     [keywords |-> << <<"a">>, <<"b">> >>, builtins |-> << <<"a">> >>],
     [keywords |-> << <<"a", "a">> >>, builtins |-> << >>]}

\* TokenStep leaving mark b at the start of the match.
TokenStep_NoAdvance(W, tok, tag, index) ==
    LET line == Line(W.chars, index)
        bc == Boundary(line, Col(W.chars, index), Len(tok))
        W1 == [W EXCEPT !.a = index, !.b = index,
                        !.lookups = @ \cup {<<i, Len(line)>> : i \in bc.lookups}]
    IN  IF bc.ok THEN TagAdd(W1, tag, W1.a, index + Len(tok)) ELSE W1

\* One turn of the while loop of a token after a match at index: the marks
\* go around the match, which is tagged when the boundary condition holds.
TokenStep(W, tok, tag, index) ==
    LET line == Line(W.chars, index)
        bc == Boundary(line, Col(W.chars, index), Len(tok))
        W1 == [W EXCEPT !.a = index, !.b = index + Len(tok),
                        !.lookups = @ \cup {<<i, Len(line)>> : i \in bc.lookups}]
    IN  IF bc.ok THEN TagAdd(W1, tag, W1.a, W1.b) ELSE W1

\* QuoteStep tagging a quote without partner through the line separator.
QuoteStep_PastLineEnd(W, q, index) ==
    LET W1 == [W EXCEPT !.a = index, !.b = LineEnd(W.chars, index)]
        close == Search(W1.chars, <<q>>, W1.a + 1, W1.b)
    IN  IF close = 0
        THEN [TagAdd(W1, "str", W1.a, LineEnd(W1.chars, W1.a) + 1)
                 EXCEPT !.b = LineEnd(W1.chars, W1.a) + 1]
        ELSE [TagAdd([W1 EXCEPT !.b = close], "str", W1.a, close + 1)
                 EXCEPT !.b = close + 1]

\* One turn of the while loop of a quote character after a quote at index:
\* the second search stops at the end of the line.
QuoteStep(W, q, index) ==
    LET W1 == [W EXCEPT !.a = index, !.b = LineEnd(W.chars, index)]
        close == Search(W1.chars, <<q>>, W1.a + 1, W1.b)
    IN  IF close = 0
        THEN TagAdd(W1, "str", W1.a, LineEnd(W1.chars, W1.a))
        ELSE [TagAdd([W1 EXCEPT !.b = close], "str", W1.a, close + 1)
                 EXCEPT !.b = close + 1]

\* One turn of the while loop of the comments after a hash sign at index.
CommentStep(W, index) ==
    LET before == SubSeq(W.chars, LineStart(W.chars, index), index - 1)
    IN  IF Count(before, DQ) % 2 = 0 /\ Count(before, SQ) % 2 = 0
        THEN LET W1 == [W EXCEPT !.a = index, !.b = LineEnd(W.chars, index)]
             IN  TagAdd(TagRemove(W1, "str", W1.a, W1.b), "comment", W1.a, W1.b)
        ELSE [W EXCEPT !.b = index + 1]

\* Page.__init__ has inserted the contents and calls syntaxHighlight().
InitLoop ==
    /\ syntax \in Catalogs
    /\ \E cont \in LoopBuffers : text = NewText(cont)
    /\ pc = "remove"
    /\ held = "none"
    /\ micKilled = FALSE
    /\ said = << >>
    /\ todo = << >>
    /\ MicReady
    /\ OneTab

\* The four tag_remove calls; the keyword loop is entered.
RemoveTags ==
    /\ pc = "remove"
    /\ text' = ClearTags(text)
    /\ todo' = syntax.keywords
    /\ pc' = "for kw"
    /\ UNCHANGED <<syntax, held, micKilled, said, mic, desk>>

\* The head of a for loop over tokens: the marks are set to "1.0" for the
\* next token, or the loop is left for what follows it.
ForToken(tag, after) ==
    /\ pc = "for " \o tag
    /\ IF todo = << >>
       THEN /\ pc' = after
            /\ todo' = IF after = "for bi" THEN syntax.builtins ELSE << >>
            /\ text' = text
       ELSE /\ pc' = "while " \o tag
            /\ todo' = todo
            /\ text' = [text EXCEPT !.a = 1, !.b = 1]
    /\ UNCHANGED <<syntax, held, micKilled, said, mic, desk>>

\* One turn of the while loop of the token Head(todo).
WhileToken(tag) ==
    /\ pc = "while " \o tag
    /\ LET index == Search(text.chars, Head(todo), text.b, End(text.chars))
       IN  IF index = 0
           THEN /\ pc' = "for " \o tag
                /\ todo' = Tail(todo)
                /\ text' = text
           ELSE /\ pc' = pc
                /\ todo' = todo
                /\ text' = TokenStep(text, Head(todo), tag, index)
    /\ UNCHANGED <<syntax, held, micKilled, said, mic, desk>>

\* The marks are set to "1.0" before the while loop of a quote character or
\* of the comments.
SetMarks(at) ==
    /\ pc = at
    /\ text' = [text EXCEPT !.a = 1, !.b = 1]
    /\ pc' = "while " \o at
    /\ UNCHANGED <<syntax, held, micKilled, said, todo, mic, desk>>

\* One turn of the while loop of the quote character q.
WhileQuote(at, q, after) ==
    /\ pc = "while " \o at
    /\ LET index == Search(text.chars, <<q>>, text.b, End(text.chars))
       IN  IF index = 0
           THEN pc' = after /\ text' = text
           ELSE pc' = pc /\ text' = QuoteStep(text, q, index)
    /\ UNCHANGED <<syntax, held, micKilled, said, todo, mic, desk>>

\* One turn of the while loop of the comments.
WhileComment ==
    /\ pc = "while comment"
    /\ LET index == Search(text.chars, <<HASH>>, text.b, End(text.chars))
       IN  IF index = 0
           THEN pc' = "done" /\ text' = text
           ELSE pc' = pc /\ text' = CommentStep(text, index)
    /\ UNCHANGED <<syntax, held, micKilled, said, todo, mic, desk>>

NextLoop ==
    \/ RemoveTags
    \/ ForToken("kw", "for bi")
    \/ WhileToken("kw")
    \/ ForToken("bi", "dq")
    \/ WhileToken("bi")
    \/ SetMarks("dq")
    \/ WhileQuote("dq", DQ, "sq")
    \/ SetMarks("sq")
    \/ WhileQuote("sq", SQ, "comment")
    \/ SetMarks("comment")
    \/ WhileComment

\* The thread that runs the pass keeps running it.
SpecLoop == InitLoop /\ [][NextLoop]_vars /\ WF_vars(NextLoop)

\* The pass taken turn by turn ends with the widget that the pass taken as a
\* whole gives.
LoopAgrees ==
    pc = "done" =>
        LET W == syntaxHighlight(NewText(text.chars), syntax, "None")
        IN  text.tags = W.tags /\ text.a = W.a /\ text.b = W.b
                               /\ text.lookups = W.lookups

\* A turn of one of the five while loops that did not leave the loop.
Turn ==
    /\ pc \in {"while kw", "while bi", "while dq", "while sq", "while comment"}
    /\ pc' = pc

\* C18: every pass comes to its end: each turn of each of the five loops
\* moves mark b, from which the next search starts, strictly forward (behind
\* the match, behind the closing quote, to the end of the line or behind a
\* hash sign passed over), a search without match leaves the loop, and the
\* pass reaches its last statement.
C18_PassTerminates ==
    /\ [][Turn => text'.b > text.b]_vars
    /\ [][(pc' # pc /\ pc' \in {"for kw", "for bi", "sq", "comment", "done"})
             => text'.tags = text.tags]_vars
    /\ <>(pc = "done")

\* The pass has ended on a buffer where a token was tagged, a quote was
\* tagged and a hash sign behind the quote was passed over.
C18_Witness ==
    /\ pc = "done"
    /\ text.tags["kw"] # {}
    /\ text.tags["str"] # {}
    /\ \E h \in Positions :
          text.chars[h] = HASH /\ h \notin text.tags["comment"]

\* The kind applied last among the kinds of K, in the order of the scans:
\* keywords, builtins, strings, comments.
LastApplied(K) ==
    IF "comment" \in K THEN "comment"
    ELSE IF "str" \in K THEN "str"
    ELSE IF "bi" \in K THEN "bi" ELSE "kw"

\* C19: a character that carries tags of several kinds is displayed in the
\* style of the kind applied last in the order keyword, builtin, string,
\* comment: a keyword inside a string shows as string, a keyword or a string
\* inside a comment shows as comment, a token of both lists shows as builtin.
C19_LastAppliedShows ==
    pc = "done" =>
        \A p \in Positions :
            /\ KindsAt(p) # {} => Visible(text, p) = LastApplied(KindsAt(p))
            /\ KindsAt(p) = {} => Visible(text, p) = "none"
            /\ (Covered(text.chars, syntax.keywords, p) /\ InPair(text.chars, DQ, p)
                   /\ p \notin text.tags["comment"])
                  => Visible(text, p) = "str"
            /\ (Covered(text.chars, syntax.keywords, p) /\ p \in text.tags["comment"])
                  => Visible(text, p) = "comment"
            /\ (Covered(text.chars, syntax.keywords, p)
                   /\ Covered(text.chars, syntax.builtins, p)
                   /\ p \notin text.tags["str"] /\ p \notin text.tags["comment"])
                  => Visible(text, p) = "bi"

\* The pass has ended on a buffer with a token of both lists outside and
\* inside a pair of quotes: it carries two tags outside, three inside.
C19_Witness ==
    /\ pc = "done"
    /\ \E p \in Positions : KindsAt(p) = {"kw", "bi"}
    /\ \E p \in Positions : KindsAt(p) = {"kw", "bi", "str"}

\* C20: every span tagged by a pass lies within the buffer and has its start
\* before its end: after each turn of a loop marks a and b are positions of
\* the buffer, b no later than the end of the last line and a no later than
\* b, and the characters the turn has tagged lie from a up to b.
C20_SpansWithinBuffer ==
    [][Turn =>
          /\ 1 <= text'.a
          /\ text'.a <= text'.b
          /\ text'.b <= Len(text.chars) + 1
          /\ \A g \in TagNames :
                text'.tags[g] \ text.tags[g] \subseteq text'.a..(text'.b - 1)]_vars

\* A turn of the double-quote loop has tagged a quote without partner on the
\* last line: mark b stands at the end of the buffer.
C20_Witness ==
    /\ pc = "while dq"
    /\ text.a < text.b
    /\ text.b = Len(text.chars) + 1
    /\ text.chars[text.a] = DQ
    /\ text.tags["str"] = text.a..Len(text.chars)
    /\ InTail(text.chars, DQ, text.a)

\* ------------------------------------------------- the two quote scans
\* The buffer c with every character but q and the line separators replaced
\* by a letter: what is left of c are the positions of q.
Only(c, q) == [k \in 1..Len(c) |-> IF c[k] \in {q, NL} THEN c[k] ELSE "a"]

\* The String positions the scan for q gives on the buffer c when no other
\* scan has run.
Alone(c, q) == QuoteScan(NewText(c), q).tags["str"]

\* C21: the two quote scans are independent. The String positions after the
\* double-quote scan are those it gives on its own on a buffer that keeps
\* only the double quotes; after the single-quote scan they are these together
\* with the positions the single-quote scan gives on its own on a buffer that
\* keeps only the single quotes, and running the two scans in the other order
\* gives the same. A single quote inside a pair of double quotes opens a span
\* of its own kind: in "a'b" it runs from the single quote to the end of the
\* line.
C21_QuoteScansIndependent ==
    /\ pc = "sq" => text.tags["str"] = Alone(Only(text.chars, DQ), DQ)
    /\ pc = "comment" =>
         /\ text.tags["str"] = Alone(Only(text.chars, DQ), DQ)
                                 \cup Alone(Only(text.chars, SQ), SQ)
         /\ text.tags["str"] =
               QuoteScan(QuoteScan(NewText(text.chars), SQ), DQ).tags["str"]
    /\ (pc = "comment" /\ text.chars = <<DQ, SQ, DQ, "a">>)
          => text.tags["str"] = {1, 2, 3, 4}
    /\ Alone(<<DQ, "a", SQ, "b", DQ>>, SQ) = {3, 4, 5}

\* Both quote scans have run on a line where a single quote lies inside a
\* pair of double quotes, and a character behind the closing double quote
\* carries the String tag on account of that single quote.
C21_Witness ==
    /\ pc = "comment"
    /\ \E p \in Positions : \E r \in Positions :
          /\ text.chars[p] = SQ
          /\ InPair(text.chars, DQ, p)
          /\ p < r
          /\ r \in text.tags["str"]
          /\ ~InPair(text.chars, DQ, r)
          /\ ~InTail(text.chars, DQ, r)

\* ------------------------------------------------- an end-to-end example
\* The two lines
\*     def f():
\*         return 1  # done
\* and the same followed by a line separator, as a file holds them.
Example ==
    <<"d", "e", "f", SP, "f", "(", ")", COLON, NL,
      SP, SP, SP, SP, "r", "e", "t", "u", "r", "n", SP, "1", SP, SP,
      HASH, SP, "d", "o", "n", "e">>

ExampleFile == Example \o <<NL>>

\* A catalog that lists def and return among its keywords.
ExampleCatalog ==
    [keywords |-> << <<"d", "e", "f">>, <<"i", "f">>,
                     <<"r", "e", "t", "u", "r", "n">> >>,
     builtins |-> << <<"i", "n", "t">>, <<"p", "r", "i", "n", "t">> >>]

\* A Page is opened on the example or on what has been written of it so far.
InitExample ==
    /\ syntax = ExampleCatalog
    /\ \E n \in 0..Len(ExampleFile) : text = NewText(SubSeq(ExampleFile, 1, n))
    /\ pc = "clear"
    /\ held = "none"
    /\ micKilled = FALSE
    /\ said = << >>
    /\ todo = << >>
    /\ MicReady
    /\ OneTab

SpecExample == InitExample /\ [][NextPass]_vars

\* C22: on the example, with or without the final line separator, the pass
\* tags exactly def and return as Keyword, exactly the characters from the
\* hash sign to the end of line 2 as Comment, and nothing as String (nor as
\* Builtin).
C22_EndToEnd ==
    (pc = "done" /\ text.chars \in {Example, ExampleFile}) =>
        /\ text.tags["kw"] = (1..3) \cup (14..19)
        /\ text.tags["comment"] = 24..29
        /\ text.tags["str"] = {}
        /\ text.tags["bi"] = {}

\* The pass has finished on the two-line example.
C22_Witness ==
    /\ pc = "done"
    /\ text.chars = Example
    /\ syntax.keywords[1] = SubSeq(text.chars, 1, 3)
    /\ 14 \in text.tags["kw"]
    /\ text.chars[24] = HASH /\ 24 \in text.tags["comment"]

\* ------------------------------------------- the comment override
\* The spans a scan for q produces on the buffer c, as <<first, last>>: each
\* closed pair of a line from its opening to its closing quote, and an
\* opening quote without a partner up to the last character of its line.
Spans(c, q) ==
    {<<o, e>> \in (1..Len(c)) \X (1..Len(c)) :
        /\ o <= e
        /\ c[o] = q
        /\ SameLine(c, o, e)
        /\ CountBefore(c, q, o) % 2 = 0
        /\ \A k \in (o + 1)..(e - 1) : c[k] # q
        /\ \/ o < e /\ c[e] = q
           \/ /\ c[e] # q \/ o = e
              /\ e + 1 = LineEnd(c, o)}

\* The spans of both kinds.
QuoteSpans(c) == Spans(c, DQ) \cup Spans(c, SQ)

\* The positions of a span.
Cells(s) == s[1]..s[2]

\* The hash signs from which the comment scan has tagged.
CommentStarts ==
    {h \in Positions :
        /\ text.chars[h] = HASH
        /\ h \in text.tags["comment"]
        /\ CountBefore(text.chars, DQ, h) % 2 = 0
        /\ CountBefore(text.chars, SQ, h) % 2 = 0}

\* C28: the comment override never cuts a String span in two. The String
\* positions the two quote scans leave are those of the spans of both kinds;
\* after the pass no such span starts before a hash sign the comment scan has
\* tagged from and ends at or after it, every span has kept the String tag on
\* all of its positions or on none, and every String position left belongs
\* to a span that is left whole.
C28_CommentCutsNoSpan ==
    /\ pc = "comment" =>
          text.tags["str"] = UNION {Cells(s) : s \in QuoteSpans(text.chars)}
    /\ pc = "done" =>
          /\ \A h \in CommentStarts : \A s \in QuoteSpans(text.chars) :
                ~(s[1] < h /\ h <= s[2])
          /\ \A s \in QuoteSpans(text.chars) :
                \/ Cells(s) \subseteq text.tags["str"]
                \/ Cells(s) \cap text.tags["str"] = {}
          /\ \A p \in text.tags["str"] : \E s \in QuoteSpans(text.chars) :
                p \in Cells(s) /\ Cells(s) \subseteq text.tags["str"]

\* A pass has finished on a line where a closed pair before a tagged hash
\* sign has kept the String tag and a span behind the hash sign has lost it.
C28_Witness ==
    /\ pc = "done"
    /\ \E h \in CommentStarts : \E s \in QuoteSpans(text.chars) :
          \E r \in QuoteSpans(text.chars) :
             /\ s[2] < h /\ SameLine(text.chars, s[1], h)
             /\ Cells(s) \subseteq text.tags["str"]
             /\ h < r[1] /\ SameLine(text.chars, h, r[1])
             /\ Cells(r) \cap text.tags["str"] = {}

\* --------------------------- the quote scans and the comment scan only
\* The pass has cleared the tags of a Page and run both token scans; the two
\* quote scans and the comment scan are still to come.
InitQuotes ==
    /\ syntax = Catalog
    /\ \E cont \in Buffers :
          text = BuiltinScan(KeywordScan(ClearTags(NewText(cont)), Catalog),
                             Catalog)
    /\ pc = "dq"
    /\ held = "none"
    /\ micKilled = FALSE
    /\ said = << >>
    /\ todo = << >>
    /\ MicReady
    /\ OneTab

NextQuotes ==
    \/ DoubleQuotes
    \/ SingleQuotes
    \/ Comments

SpecQuotes == InitQuotes /\ [][NextQuotes]_vars

\* ------------------------------------------------- the voice thread only
\* The editor is left to the voice: the right Shift key, the microphone menu
\* and the microphone button are the only controls used.
NextVoice ==
    \/ ShiftPress
    \/ KeyRelease
    \/ MenuStart
    \/ killMic
    \/ Begin
    \/ Listen
    \/ Transcribe
    \/ Command
    \/ Clear
    \/ Keywords
    \/ Builtins
    \/ DoubleQuotes
    \/ SingleQuotes
    \/ Comments
    \/ ThreadExit

SpecVoice == Init /\ [][NextVoice]_vars

\* The right Shift key goes down.
ShiftDown == held = "none" /\ held' = "Shift_R"

\* C27: at most one voice-recognition thread is alive at any time. A thread
\* is started only when none is alive and the microphone is enabled, and a
\* press of the right Shift key then starts exactly one; pressed while a
\* thread is alive or the microphone is disabled, it changes neither the
\* threads nor anything the thread works on.
C27_OneVoiceThread ==
    /\ [](alive \in {0, 1} /\ (alive = 1 <=> pc # "idle"))
    /\ [][alive' > alive => alive = 0 /\ ~micKilled /\ pc' = "recognize"]_vars
    /\ [][ShiftDown =>
            IF pc = "idle" /\ ~micKilled
            THEN alive' = 1 /\ pc' = "recognize"
            ELSE UNCHANGED <<alive, pc, text, said, micButton, statusbar>>]_vars

\* The right Shift key is down while a recognition thread is alive and past
\* its listening, with words of an earlier thread in the buffer.
C27_Witness ==
    /\ alive = 1
    /\ held = "Shift_R"
    /\ pc \in {"process", "command"}
    /\ text.chars # << >>

\* C29: while the microphone is disabled the button and the status bar show
\* the disabled state, and no step of a recognition thread changes them or
\* the buffer, the cursor or the tags of the editor.
C29_DisabledMicStaysDisabled ==
    /\ [](micKilled => /\ micButton = "Microphone Disabled"
                       /\ statusbar = "Microphone Disabled by User")
    /\ [][(micKilled /\ WorkerStep) =>
             /\ micButton' = micButton
             /\ statusbar' = statusbar
             /\ text' = text]_vars

\* -------------------------------------------- saving, closing, running
\* What a call of save, close, run or exit can come to, one record for each
\* way the dialogues are answered and the writes go: the tab or the notebook
\* and the files afterwards; ret, the value returned ("None", "True", or
\* "TypeError" for the exception raised); answer, what the question asked
\* was answered ("yes", "no", "cancel", or "none" when none was asked); and
\* wrote, whether the buffer was written to a file.

\* Page.save. The save dialogue is shown when the tab has no path or saveAs
\* is set; closed without a name it makes save return True at once, a path
\* becomes the path of the tab. The write then either succeeds, and saved
\* becomes the buffer, or fails and leaves the file as it was: the error box
\* is shown, the path is removed and save is called again, its value
\* dropped. n is the number of failures still followed.
RECURSIVE save(_, _, _, _)
save(tab, fs, saveAs, n) ==
    LET try(t) ==
            {[tab |-> [t EXCEPT !.saved = t.cont],
              files |-> Write(fs, t.path, t.cont),
              ret |-> "None", wrote |-> TRUE]}
            \cup
            (IF n = 0 THEN {}
             ELSE {[r EXCEPT !.ret = "None"] :
                     r \in save([t EXCEPT !.path = None], fs, FALSE, n - 1)})
    IN  IF tab.path = None \/ saveAs
        THEN {[tab |-> tab, files |-> fs, ret |-> "True", wrote |-> FALSE]}
             \cup UNION {try([tab EXCEPT !.path = p]) : p \in Paths}
        ELSE try(tab)

\* Page.close, the end, without the new tab.
Closed_NoNewPage(nb, i) == Forget(nb, i)

\* Page.close, the end: the tab is removed and, when the notebook is empty
\* then, a new empty untitled Page is added.
Closed(nb, i) ==
    LET rest == Forget(nb, i)
    IN  IF Len(rest.tabs) = 0 THEN Add(rest, NewPage(<< >>, None)) ELSE rest

\* Page.close of tab i.
close(nb, fs, i, n) ==
    LET tab == nb.tabs[i]
        gone(fs2, answer, wrote) ==
            [notebook |-> Closed(nb, i), files |-> fs2, ret |-> "None",
             answer |-> answer, wrote |-> wrote]
        kept(nb2, fs2, answer) ==
            [notebook |-> nb2, files |-> fs2, ret |-> "True",
             answer |-> answer, wrote |-> FALSE]
    IN  IF tab.cont # tab.saved
        THEN {gone(fs, "no", FALSE), kept(nb, fs, "cancel")}
             \cup {IF r.ret = "True"
                   THEN kept([nb EXCEPT !.tabs[i] = r.tab], r.files, "yes")
                   ELSE gone(r.files, "yes", r.wrote) :
                      r \in save(tab, fs, FALSE, n)}
        ELSE {gone(fs, "none", FALSE)}

\* Page.run: ran is the path handed to the interpreter; with no path the
\* command line cannot be put together and a TypeError is raised.
run(tab, fs, n) ==
    LET execute(t, fs2, answer, wrote) ==
            [tab |-> t, files |-> fs2, answer |-> answer, wrote |-> wrote,
             ret |-> IF t.path = None THEN "TypeError" ELSE "None",
             ran |-> t.path]
        back(t, fs2, answer) ==
            [tab |-> t, files |-> fs2, answer |-> answer, wrote |-> FALSE,
             ret |-> "None", ran |-> None]
    IN  IF tab.cont # tab.saved \/ tab.path = None
        THEN {back(tab, fs, "no")}
             \cup {IF r.ret = "True"
                   THEN back(r.tab, r.files, "yes")
                   ELSE execute(r.tab, r.files, "yes", r.wrote) :
                      r \in save(tab, fs, FALSE, n)}
        ELSE {execute(tab, fs, "none", FALSE)}

\* App.exit: close is called for each of the k tabs that were open when it
\* began, in tab order; the first that returns a true value stops it,
\* otherwise the window is destroyed.
RECURSIVE exit(_, _, _, _)
exit(nb, fs, k, n) ==
    IF k = 0
    THEN {[notebook |-> nb, files |-> fs, destroyed |-> TRUE]}
    ELSE UNION {IF r.ret = "True"
                THEN {[notebook |-> r.notebook, files |-> r.files,
                       destroyed |-> FALSE]}
                ELSE exit(r.notebook, r.files, k - 1, n) :
                   r \in close(nb, fs, 1, n)}

\* App.openFile: the first tab with the path is selected if there is one;
\* otherwise the file is read into a new Page and then the first tab is
\* removed if it is empty and has no path. A file that is missing or cannot
\* be decoded only brings up an error box.
openFile(nb, fs, path, readable) ==
    LET same == {i \in 1..Len(nb.tabs) : nb.tabs[i].path = path}
        least == CHOOSE i \in same : \A j \in same : i <= j
        nb1 == Add(nb, NewPage(fs[path], path))
    IN  IF same # {} THEN [nb EXCEPT !.select = least]
        ELSE IF path \notin DOMAIN fs \/ ~readable THEN nb
        ELSE IF nb1.tabs[1].cont = << >> /\ nb1.tabs[1].path = None
             THEN Forget(nb1, 1)
             ELSE nb1

\* ------------------------------------------------- the file operations
\* The notebook of a new window; the files are whatever the disk holds.
InitTabs ==
    /\ syntax = Catalog
    /\ text = syntaxHighlight(NewText(<< >>), Catalog, "None")
    /\ pc = "idle"
    /\ held = "none"
    /\ micKilled = FALSE
    /\ said = << >>
    /\ todo = << >>
    /\ MicReady
    /\ notebook = Add([tabs |-> << >>, select |-> 0], NewPage(<< >>, None))
    /\ files \in UNION {[S -> Contents] : S \in SUBSET Paths}
    /\ destroyed = FALSE
    /\ outcome = NoOutcome

\* The variables of the editor and of the voice, which the file operations
\* leave alone.
editor == <<syntax, text, pc, held, micKilled, said, todo, mic>>

\* The selected tab.
Selected == notebook.tabs[notebook.select]

\* New Untitled File: Page(self.notebook).
NewTab ==
    /\ ~destroyed
    /\ Len(notebook.tabs) < MaxTabs
    /\ notebook' = Add(notebook, NewPage(<< >>, None))
    /\ outcome' = NoOutcome
    /\ UNCHANGED <<files, destroyed, editor>>

\* A click on tab i selects it.
SelectTab(i) ==
    /\ ~destroyed
    /\ notebook' = [notebook EXCEPT !.select = i]
    /\ outcome' = NoOutcome
    /\ UNCHANGED <<files, destroyed, editor>>

\* The buffer of the selected tab is edited until it holds c.
Edit(c) ==
    /\ ~destroyed
    /\ c # Selected.cont
    /\ notebook' = [notebook EXCEPT !.tabs[notebook.select].cont = c]
    /\ outcome' = NoOutcome
    /\ UNCHANGED <<files, destroyed, editor>>

\* Save File and Save File As: save() and save(True) of the selected tab.
Save(saveAs) ==
    /\ ~destroyed
    /\ \E r \in save(Selected, files, saveAs, MaxRetry) :
          /\ notebook' = [notebook EXCEPT !.tabs[notebook.select] = r.tab]
          /\ files' = r.files
          /\ outcome' = [op |-> "save", ret |-> r.ret, answer |-> "none",
                         wrote |-> r.wrote, ran |-> None]
    /\ UNCHANGED <<destroyed, editor>>

\* Close File: close() of the selected tab.
Close ==
    /\ ~destroyed
    /\ \E r \in close(notebook, files, notebook.select, MaxRetry) :
          /\ notebook' = r.notebook
          /\ files' = r.files
          /\ outcome' = [op |-> "close", ret |-> r.ret, answer |-> r.answer,
                         wrote |-> r.wrote, ran |-> None]
    /\ UNCHANGED <<destroyed, editor>>

\* Run: run() of the selected tab.
Run ==
    /\ ~destroyed
    /\ \E r \in run(Selected, files, MaxRetry) :
          /\ notebook' = [notebook EXCEPT !.tabs[notebook.select] = r.tab]
          /\ files' = r.files
          /\ outcome' = [op |-> "run", ret |-> r.ret, answer |-> r.answer,
                         wrote |-> r.wrote, ran |-> r.ran]
    /\ UNCHANGED <<destroyed, editor>>

\* Open File with the dialogue answered path, or a file opened from the
\* directory tree: openFile(path).
OpenFile(path) ==
    /\ ~destroyed
    /\ \E readable \in BOOLEAN :
          notebook' = openFile(notebook, files, path, readable)
    /\ Len(notebook'.tabs) <= MaxTabs
    /\ outcome' = [NoOutcome EXCEPT !.op = "open"]
    /\ UNCHANGED <<files, destroyed, editor>>

\* FileTree.createFile for a path that does not exist: an empty file is
\* written and handed to openFile.
CreateFile(path) ==
    /\ ~destroyed
    /\ path \notin DOMAIN files
    /\ files' = Write(files, path, << >>)
    /\ notebook' = openFile(notebook, files', path, TRUE)
    /\ Len(notebook'.tabs) <= MaxTabs
    /\ outcome' = [NoOutcome EXCEPT !.op = "open"]
    /\ UNCHANGED <<destroyed, editor>>

\* FileTree.delItem on a file, confirmed: os.remove(path).
DeleteFile(path) ==
    /\ ~destroyed
    /\ path \in DOMAIN files
    /\ files' = [p \in DOMAIN files \ {path} |-> files[p]]
    /\ outcome' = NoOutcome
    /\ UNCHANGED <<notebook, destroyed, editor>>

\* The window is closed: App.exit.
Exit ==
    /\ ~destroyed
    /\ \E r \in exit(notebook, files, Len(notebook.tabs), MaxRetry) :
          /\ notebook' = r.notebook
          /\ files' = r.files
          /\ destroyed' = r.destroyed
          /\ outcome' = [NoOutcome EXCEPT
                           !.op = "exit",
                           !.ret = IF r.destroyed THEN "None" ELSE "True"]
    /\ UNCHANGED editor

NextTabs ==
    \/ NewTab
    \/ \E i \in 1..Len(notebook.tabs) : SelectTab(i)
    \/ \E c \in Contents : Edit(c)
    \/ \E saveAs \in BOOLEAN : Save(saveAs)
    \/ Close
    \/ Run
    \/ \E path \in Paths : OpenFile(path)
    \/ \E path \in Paths : CreateFile(path)
    \/ \E path \in Paths : DeleteFile(path)
    \/ Exit

SpecTabs == InitTabs /\ [][NextTabs]_vars

TabsOK ==
    /\ notebook.select \in 1..Len(notebook.tabs)
    /\ Len(notebook.tabs) <= MaxTabs
    /\ \A i \in 1..Len(notebook.tabs) :
          /\ notebook.tabs[i].path \in Paths \cup {None}
          /\ notebook.tabs[i].saved \in Contents
          /\ notebook.tabs[i].cont \in Contents
    /\ DOMAIN files \subseteq Paths
    /\ outcome.ret \in {"None", "True", "TypeError"}

\* ------------------------------------------ properties of the file operations
\* The step is a call of Page.close on the selected tab (every operation
\* records itself in outcome).
CloseStep == outcome'.op = "close"

\* The buffers of the tabs, in tab order.
Buffer(nb) == [i \in 1..Len(nb.tabs) |-> nb.tabs[i].cont]

\* C23: Page.close never discards unsaved work without the user's consent.
\* It removes the tab (and returns None) only if the buffer equals the last
\* saved contents, or the question was answered No, or it was answered Yes
\* and the buffer was written to a file. When the question is cancelled, or
\* answered Yes and the save ends without a write, close returns True and
\* every tab is still open with its buffer; App.exit then leaves the window
\* alone.
C23_CloseKeepsUnsavedWork ==
    /\ [][CloseStep =>
            /\ outcome'.ret = "None" =>
                  \/ Selected.cont = Selected.saved
                  \/ outcome'.answer = "no"
                  \/ outcome'.answer = "yes" /\ outcome'.wrote
            /\ (\/ outcome'.answer = "cancel"
                \/ outcome'.answer = "yes" /\ ~outcome'.wrote) =>
                  outcome'.ret = "True" /\ Buffer(notebook') = Buffer(notebook)]_vars
    /\ [][(outcome'.op = "exit" /\ outcome'.ret = "True") =>
             ~destroyed']_vars

\* C24: Page.save returns True whenever it ends without having written the
\* buffer to a file; whenever it returns anything else the tab has a path,
\* the file at that path holds the buffer and saved equals the buffer.
C24_SaveTrueUnlessWritten ==
    outcome.op = "save" =>
        /\ ~outcome.wrote => outcome.ret = "True"
        /\ outcome.ret # "True" =>
              /\ Selected.path # None
              /\ Selected.path \in DOMAIN files
              /\ files[Selected.path] = Selected.cont
              /\ Selected.saved = Selected.cont

\* C25: Page.run hands a path to the interpreter only when the tab has one
\* and the buffer equals the last saved contents; when saving is declined,
\* or the save ends without a write, nothing is run, and in no case is an
\* error raised.
C25_RunOnlySavedFile ==
    outcome.op = "run" =>
        /\ outcome.ret # "TypeError"
        /\ outcome.ran # None =>
              /\ Selected.path = outcome.ran
              /\ Selected.cont = Selected.saved
        /\ (\/ outcome.answer = "no"
            \/ outcome.answer = "yes" /\ ~outcome.wrote) =>
              outcome.ran = None

\* C26: until the window is destroyed the notebook holds at least one tab
\* after every operation. Closing the only tab leaves one new empty untitled
\* tab; openFile never leaves fewer tabs than it found, and when it removes
\* the first tab the newly opened one is the last.
C26_NotebookNeverEmpty ==
    /\ [](~destroyed => Len(notebook.tabs) >= 1)
    /\ [][(CloseStep /\ outcome'.ret = "None" /\ Len(notebook.tabs) = 1) =>
             notebook' = [tabs |-> <<NewPage(<< >>, None)>>, select |-> 1]]_vars
    /\ [][outcome'.op = "open" =>
             /\ Len(notebook'.tabs) >= Len(notebook.tabs)
             /\ notebook'.tabs # notebook.tabs =>
                   /\ notebook'.tabs[Len(notebook'.tabs)].path \in Paths
                   /\ notebook'.select = Len(notebook'.tabs)
                   /\ \/ notebook'.tabs = SubSeq(notebook'.tabs, 1, Len(notebook.tabs))
                                            \o <<notebook'.tabs[Len(notebook'.tabs)]>>
                         /\ SubSeq(notebook'.tabs, 1, Len(notebook.tabs)) = notebook.tabs
                      \/ /\ notebook.tabs[1].cont = << >>
                         /\ notebook.tabs[1].path = None
                         /\ SubSeq(notebook'.tabs, 1, Len(notebook'.tabs) - 1)
                               = Tail(notebook.tabs)]_vars

\* The only tab, with unsaved work, has been closed with the answer No, or
\* the last of the tabs has, and the notebook holds one new empty untitled
\* tab.
C26_Witness ==
    /\ ~destroyed
    /\ outcome.op = "close"
    /\ outcome.ret = "None"
    /\ outcome.answer = "no"
    /\ notebook = [tabs |-> <<NewPage(<< >>, None)>>, select |-> 1]

\* C30: no two open tabs have the same path other than None.
C30_NoSharedPath ==
    \A i \in 1..Len(notebook.tabs) : \A j \in 1..Len(notebook.tabs) :
        (i # j /\ notebook.tabs[i].path = notebook.tabs[j].path)
            => notebook.tabs[i].path = None
====
